---- MODULE Spec2Model ----
(***************************************************************************)
(* Model of BiologyKnowledgeBase (src/src/knowledge_base.py): the record   *)
(* store of the three categories, their persisted snapshots, the per-      *)
(* category FAISS indices, the shared is_initialized flag, and the         *)
(* operations startup, add, import, export, refresh (update_embeddings),   *)
(* status and search.                                                      *)
(*                                                                         *)
(* A text is a sequence of one-character strings; a record is a function   *)
(* from field names to texts (scalar fields) or sequences of texts (list   *)
(* fields); a missing field is a field outside the record's DOMAIN.        *)
(***************************************************************************)
EXTENDS Integers, Sequences, FiniteSets, TLC

VARIABLES
    phase,           \* "new" before __init__ has run, "ready" after it
    model,           \* self.model is not None
    data,            \* self.species_data / concepts_data / processes_data
    file,            \* the three snapshot files of data_dir
    index,           \* self.species_index / concepts_index / processes_index
    is_initialized,  \* self.is_initialized
    ret,             \* the last operation, its inputs and what it returned
    wpc, rpc, rloc   \* a writer and a reader thread (specification SpecConc)

vars == <<phase, model, data, file, index, is_initialized, ret, wpc, rpc, rloc>>

kbvars == <<phase, model, data, file, index, is_initialized>>
thrvars == <<wpc, rpc, rloc>>

(***************************************************************************)
(* Bounds of the model.                                                    *)
(***************************************************************************)
\* The records of the three categories together.
MaxRecords == 4

\* The default top_k of search_* (line 255) and of search_combined (line 786).
DefaultTopK == 5
CombinedTopK == 3

(***************************************************************************)
(* Values.                                                                 *)
(***************************************************************************)
Categories == {"species", "concepts", "processes"}
CatOrder == <<"species", "concepts", "processes">>
AddCategories == {"species", "concepts"}

None == "None"
NoFail == "NoFail"

\* An index attribute: None, or a FAISS index holding vectors.
NoIndex == [present |-> FALSE, vecs |-> <<>>]
IndexOf(vecs) == [present |-> TRUE, vecs |-> vecs]

\* A snapshot file: missing, unreadable (open or json.load raises), or a list.
NoFile == [state |-> "absent", recs |-> <<>>]
Unreadable == [state |-> "unreadable", recs |-> <<>>]
Snapshot(recs) == [state |-> "ok", recs |-> recs]

Pos(c) == CHOOSE i \in 1..Len(CatOrder) : CatOrder[i] = c

(***************************************************************************)
(* Python string operations, on sequences of characters.                   *)
(***************************************************************************)
SP == " "

LowerChar(ch) ==
    IF ch = "A" THEN "a" ELSE IF ch = "B" THEN "b"
    ELSE IF ch = "C" THEN "c" ELSE IF ch = "P" THEN "p" ELSE ch

Lower(s) == [i \in 1..Len(s) |-> LowerChar(s[i])]

\* a in b, for two strings
IsSubstr(a, b) ==
    \E i \in 0..(Len(b) - Len(a)) : SubSeq(b, i + 1, i + Len(a)) = a

RECURSIVE JoinSp(_)
\* ' '.join(parts)
JoinSp(parts) ==
    IF parts = <<>> THEN <<>>
    ELSE IF Len(parts) = 1 THEN parts[1]
    ELSE parts[1] \o <<SP>> \o JoinSp(Tail(parts))

RECURSIVE SplitFrom(_, _)
\* The words of s, cur being the word read so far.
SplitFrom(s, cur) ==
    IF s = <<>> THEN (IF cur = <<>> THEN <<>> ELSE <<cur>>)
    ELSE IF Head(s) = SP
         THEN (IF cur = <<>> THEN <<>> ELSE <<cur>>) \o SplitFrom(Tail(s), <<>>)
         ELSE SplitFrom(Tail(s), Append(cur, Head(s)))

\* s.split()
Split(s) == SplitFrom(s, <<>>)

RECURSIVE SelectNonEmpty(_)
\* [part for part in parts if part]
SelectNonEmpty(parts) ==
    IF parts = <<>> THEN <<>>
    ELSE IF Head(parts) = <<>> THEN SelectNonEmpty(Tail(parts))
    ELSE <<Head(parts)>> \o SelectNonEmpty(Tail(parts))

\* record.get(f, default)
Get(r, f, default) == IF f \in DOMAIN r THEN r[f] ELSE default

(***************************************************************************)
(* The fields of the two projections of a record; list marks the fields    *)
(* that hold a list of strings, joined with ' '.                           *)
(***************************************************************************)
Fld(f) == [f |-> f, list |-> FALSE]
Lst(f) == [f |-> f, list |-> TRUE]

FormatFields(c) ==
    IF c = "species" THEN
        <<Fld("name"), Fld("scientific_name"), Fld("family"),
          Fld("characteristics"), Fld("habitat"), Fld("behavior"),
          Lst("keywords")>>
    ELSE IF c = "concepts" THEN
        <<Fld("name"), Fld("definition"), Fld("description"),
          Fld("importance"), Lst("keywords"), Lst("related_concepts")>>
    ELSE
        <<Fld("name"), Fld("description"), Fld("mechanism"),
          Fld("location"), Lst("steps"), Lst("keywords")>>

BasicFields(c) ==
    IF c = "species" THEN
        <<Fld("name"), Fld("scientific_name"), Fld("characteristics"),
          Fld("habitat"), Fld("behavior"), Lst("keywords")>>
    ELSE IF c = "concepts" THEN
        <<Fld("name"), Fld("definition"), Fld("description"),
          Lst("keywords"), Lst("related_concepts")>>
    ELSE
        <<Fld("name"), Fld("description"), Fld("mechanism"),
          Lst("steps"), Lst("keywords")>>

Part(r, fd) ==
    IF fd.list THEN JoinSp(Get(r, fd.f, <<>>)) ELSE Get(r, fd.f, <<>>)

Parts(r, fields) == [i \in 1..Len(fields) |-> Part(r, fields[i])]

\* A list field that holds JSON null (keywords: null).  No list of strings
\* has this value, a string being a sequence of single characters.
NullList == << <<"null">> >>

\* ' '.join(record.get(f, [])) raises TypeError for one of the list fields.
JoinRaises(r, fields) ==
    \E i \in 1..Len(fields) : fields[i].list /\ Get(r, fields[i].f, <<>>) = NullList

\* The list comprehension of lines 179, 192 and 203 raises.
FormatRaises(c, recs) == \E i \in 1..Len(recs) : JoinRaises(recs[i], FormatFields(c))

\* The loop of _basic_search_* raises.
BasicRaises(c, recs) == \E i \in 1..Len(recs) : JoinRaises(recs[i], BasicFields(c))

\* _format_species_text / _format_concept_text / _format_process_text
FormatText(c, r) == JoinSp(SelectNonEmpty(Parts(r, FormatFields(c))))

\* searchable_text of _basic_search_*
SearchableText(c, r) == Lower(JoinSp(Parts(r, BasicFields(c))))

(***************************************************************************)
(* The embedding provider and the FAISS inner-product index.               *)
(* SentenceTransformer.encode is a deterministic map from a text to a      *)
(* vector of fixed dimension; here the vector counts the letters of the    *)
(* text.  An index is the sequence of the vectors added to it; scores are  *)
(* cosines, in thousandths.                                                *)
(***************************************************************************)
Count(s, ch) == Cardinality({i \in 1..Len(s) : s[i] = ch})

\* model.encode([text])[0]
Encode(text) == <<Count(text, "a"), Count(text, "b"), 1>>

\* model.encode(texts) of _create_vector_indices, then IndexFlatIP.add
EncodeAll(c, recs) == [i \in 1..Len(recs) |-> Encode(FormatText(c, recs[i]))]

Dot(u, v) == u[1] * v[1] + u[2] * v[2] + u[3] * v[3]

RECURSIVE RootFrom(_, _, _, _)
\* The greatest n in lo..hi with n * n * den <= num.
RootFrom(lo, hi, num, den) ==
    IF lo = hi THEN lo
    ELSE LET mid == (lo + hi + 1) \div 2
         IN IF mid * mid * den <= num THEN RootFrom(mid, hi, num, den)
            ELSE RootFrom(lo, mid - 1, num, den)

\* The inner product of the two L2-normalised vectors, in thousandths (the
\* letter counts are never negative, so neither is the product).
Cosine(u, v) ==
    RootFrom(0, 1000, 1000000 * Dot(u, v) * Dot(u, v), Dot(u, u) * Dot(v, v))

RECURSIVE Cosines(_, _)
Cosines(qv, vecs) ==
    IF vecs = <<>> THEN <<>>
    ELSE <<Cosine(qv, Head(vecs))>> \o Cosines(qv, Tail(vecs))

Min(a, b) == IF a < b THEN a ELSE b
Max(a, b) == IF a > b THEN a ELSE b

RECURSIVE RankFrom(_, _)
\* The positions of S by descending score, the lower position first on a tie.
RankFrom(S, score) ==
    IF S = {} THEN <<>>
    ELSE LET best == CHOOSE i \in S :
                 \A j \in S : score[i] > score[j] \/ (score[i] = score[j] /\ i <= j)
         IN <<best>> \o RankFrom(S \ {best}, score)

\* index.search(query_vector, kk): kk positions, 0 standing for the -1 FAISS
\* pads with when the index holds fewer than kk vectors.
IndexSearch(idx, qv, kk) ==
    LET score == Cosines(qv, idx)
        ranked == RankFrom(1..Len(idx), score)
    IN [j \in 1..kk |->
           IF j <= Len(ranked) THEN [pos |-> ranked[j], score |-> score[ranked[j]]]
           ELSE [pos |-> 0, score |-> 0]]

(***************************************************************************)
(* Search results: a copy of the record with the derived fields.           *)
(***************************************************************************)
Extend(r, extra) ==
    [f \in DOMAIN r \cup DOMAIN extra |-> IF f \in DOMAIN extra THEN extra[f] ELSE r[f]]

\* int(x) for x = a / b with b > 0: the fraction is cut off, toward zero
IntOf(a, b) == IF a >= 0 THEN a \div b ELSE -((-a) \div b)

\* VectorConfidence without the clamp.
VectorConfidenceRaw(score) == IntOf(score, 10)

\* line 295: min(95, max(60, int(score * 100))), score in thousandths
VectorConfidence(score) == Min(95, Max(60, IntOf(score, 10)))

\* line 335: min(90, max(50, int(score * 80))), score in thousandths
BasicConfidence(score) == Min(90, Max(50, IntOf(score * 80, 1000)))

\* lines 293-297 (species), 381-384 (concepts), 462-465 (processes)
VectorResult(c, r, score) ==
    IF c = "species"
    THEN Extend(r, [similarity_score |-> score,
                    confidence |-> VectorConfidence(score),
                    search_method |-> "vector"])
    ELSE Extend(r, [relevance_score |-> score, search_method |-> "vector"])

\* BasicResult with the label of the vector path.
BasicResultLabelledVector(c, r, score) ==
    IF c = "species"
    THEN Extend(r, [similarity_score |-> score,
                    confidence |-> BasicConfidence(score),
                    search_method |-> "vector"])
    ELSE Extend(r, [relevance_score |-> score, search_method |-> "vector"])

\* lines 333-337 (species), 416-419 (concepts), 497-500 (processes)
BasicResult(c, r, score) ==
    IF c = "species"
    THEN Extend(r, [similarity_score |-> score,
                    confidence |-> BasicConfidence(score),
                    search_method |-> "basic"])
    ELSE Extend(r, [relevance_score |-> score, search_method |-> "basic"])

ScoreOf(c, res) ==
    IF c = "species" THEN res["similarity_score"] ELSE res["relevance_score"]

RECURSIVE BasicScores(_, _, _)
RECURSIVE WordScore(_, _)
\* WordScore with 0.2 for each distinct word of the query that is in the text.
WordScoreDistinct(words, text) ==
    200 * Cardinality({w \in {words[i] : i \in 1..Len(words)} : IsSubstr(w, text)})

\* 0.2 for each word of the query that is in the text
WordScore(words, text) ==
    IF words = <<>> THEN 0
    ELSE (IF IsSubstr(Head(words), text) THEN 200 ELSE 0)
         + WordScore(Tail(words), text)

\* BasicScore without the 0.8 of the whole query.
BasicScoreWordsOnly(c, r, q) == WordScore(Split(Lower(q)), SearchableText(c, r))

\* The score of one record in _basic_search_*, in thousandths: 0.8 for the
\* whole query, 0.2 for each of its words.
BasicScore(c, r, q) ==
    LET text == SearchableText(c, r)
    IN (IF IsSubstr(Lower(q), text) THEN 800 ELSE 0)
       + WordScore(Split(Lower(q)), text)

BasicScores(c, recs, q) ==
    IF recs = <<>> THEN <<>>
    ELSE <<BasicScore(c, Head(recs), q)>> \o BasicScores(c, Tail(recs), q)

\* results[:k]
Slice(s, k) ==
    IF k >= 0 THEN SubSeq(s, 1, Min(k, Len(s)))
    ELSE SubSeq(s, 1, Max(0, Len(s) + k))

\* BasicSearch without the sort of lines 340, 421 and 502.
BasicSearchUnsorted(c, recs, q, k) ==
    LET score == BasicScores(c, recs, q)
        hits == SelectSeq([i \in 1..Len(recs) |-> i], LAMBDA i : score[i] > 0)
        results == [j \in 1..Len(hits) |->
                       BasicResult(c, recs[hits[j]], score[hits[j]])]
    IN Slice(results, k)

\* _basic_search_species / _basic_search_concepts / _basic_search_processes,
\* when no record makes it raise
BasicSearch(c, recs, q, k) ==
    LET score == BasicScores(c, recs, q)
        hits == {i \in 1..Len(recs) : score[i] > 0}
        ranked == RankFrom(hits, score)
        results == [j \in 1..Len(ranked) |->
                       BasicResult(c, recs[ranked[j]], score[ranked[j]])]
    IN Slice(results, k)

\* The try block of _vector_search_* (lines 279-299): recs and idx are the
\* record list and the index the call reads, qfail says that
\* model.encode([query]) raises.  recs[pos] raises IndexError when the index
\* returns a position the list does not have.  index.search raises for a
\* negative number of neighbours; for 0 it raises or returns no position,
\* depending on the FAISS release, which qfail covers.
VectorAttempt(c, recs, idx, q, k, qfail) ==
    IF qfail \/ Min(k, Len(recs)) < 0 THEN [raised |-> TRUE, out |-> <<>>]
    ELSE LET found == IndexSearch(idx.vecs, Encode(q), Min(k, Len(recs)))
             kept == SelectSeq(found, LAMBDA h : h.pos # 0)
         IN IF \E j \in 1..Len(kept) : kept[j].pos > Len(recs)
            THEN [raised |-> TRUE, out |-> <<>>]
            ELSE [raised |-> FALSE,
                  out |-> [j \in 1..Len(kept) |->
                              VectorResult(c, recs[kept[j].pos], kept[j].score)]]

\* VectorFallback with "return []" in the except branch.
VectorFallbackEmpty(c, recs, q, k) == [path |-> "fallback", out |-> <<>>]

\* The except branch of _vector_search_*: the basic search answers the
\* call, and what it raises reaches the caller.
VectorFallback(c, recs, q, k) ==
    IF BasicRaises(c, recs) THEN [path |-> "raised", out |-> <<>>]
    ELSE [path |-> "fallback", out |-> BasicSearch(c, recs, q, k)]

\* _vector_search_species / _vector_search_concepts / _vector_search_processes
VectorSearch(c, recs, idx, q, k, qfail) ==
    LET try == VectorAttempt(c, recs, idx, q, k, qfail)
    IN IF try.raised THEN VectorFallback(c, recs, q, k)
       ELSE [path |-> "vector", out |-> try.out]

\* The condition of lines 270, 358 and 439.
UsesVector(m, idx, init) == m /\ idx.present /\ init

\* SearchCategory without the test of lines 266, 354 and 435.
SearchCategoryNoEmptyTest(c, recs, m, idx, init, q, k, qfail) ==
    IF UsesVector(m, idx, init) THEN VectorSearch(c, recs, idx, q, k, qfail)
    ELSE IF BasicRaises(c, recs) THEN [path |-> "raised", out |-> <<>>]
    ELSE [path |-> "basic", out |-> BasicSearch(c, recs, q, k)]

\* search_species / search_concepts / search_processes
SearchCategory(c, recs, m, idx, init, q, k, qfail) ==
    IF recs = <<>> THEN [path |-> "empty", out |-> <<>>]
    ELSE IF UsesVector(m, idx, init) THEN VectorSearch(c, recs, idx, q, k, qfail)
    ELSE IF BasicRaises(c, recs) THEN [path |-> "raised", out |-> <<>>]
    ELSE [path |-> "basic", out |-> BasicSearch(c, recs, q, k)]

(***************************************************************************)
(* The state of a category, as the routing of lines 266-274 defines it: a  *)
(* search of a VectorReady category takes the vector path, a search of a   *)
(* LexicalOnly category the basic path.                                    *)
(***************************************************************************)
VectorReady(c) ==
    phase = "ready" /\ data[c] # <<>> /\ UsesVector(model, index[c], is_initialized)

LexicalOnly(c) ==
    phase = "ready" /\ data[c] # <<>> /\ ~UsesVector(model, index[c], is_initialized)

\* The index of category c holds the vectors of its current records, in order.
IndexHolds(c, idx, recs) == idx = IndexOf(EncodeAll(c, recs))

IndexCurrent(c) == IndexHolds(c, index[c], data[c])

(***************************************************************************)
(* The inputs of the model: records, queries, import bundles, snapshots.   *)
(***************************************************************************)
RecA == [name |-> <<"a">>, keywords |-> << <<"b">> >>]
RecB == [name |-> <<"A", "b">>]
RecNoName == [keywords |-> << <<"a">> >>]
RecEmptyName == [name |-> <<>>, keywords |-> << <<"b">> >>]

RecNullKeywords == [name |-> <<"b">>, keywords |-> NullList]

RecordPool == {RecA, RecNoName, RecNullKeywords}

RecBB == [name |-> <<"b", "b">>]

\* not species_data.get('name')
NameMissing(r) == Get(r, "name", <<>>) = <<>>

Queries == {<<"a">>, <<"A", SP, "b">>}
Ks == {1, DefaultTopK}

\* _get_default_species_data / _get_default_concepts_data /
\* _get_default_processes_data, each shortened to one record
DefaultData(c) ==
    IF c = "species" THEN <<RecA>> ELSE IF c = "concepts" THEN <<RecB>> ELSE <<RecA>>

\* The contents of the file import_knowledge_base reads: a bundle holds the
\* record lists of some of the categories.
Bundle(cats, lists) == [readable |-> TRUE, cats |-> cats, lists |-> lists]

Bundles ==
    { Bundle(Categories,
             [species |-> <<>>, concepts |-> <<RecEmptyName>>,
              processes |-> <<RecB, RecA>>]) }

\* The concept of the degradation scenario, and its query.
Photosynthesis ==
    [name |-> <<"P", "h", "o", "t", "o", "s", "y", "n", "t", "h", "e", "s", "i", "s">>,
     definition |-> <<"C", "o", "n", "v", "e", "r", "t", "s", SP,
                      "l", "i", "g", "h", "t", SP, "i", "n", "t", "o", SP,
                      "c", "h", "e", "m", "i", "c", "a", "l", SP,
                      "e", "n", "e", "r", "g", "y">>,
     keywords |-> << <<"l", "i", "g", "h", "t">>,
                     <<"c", "h", "l", "o", "r", "o", "p", "h", "y", "l", "l">> >>]

LightEnergy == <<"l", "i", "g", "h", "t", SP, "e", "n", "e", "r", "g", "y">>

\* A bundle that holds one category only.
ConceptsBundle(recs) ==
    Bundle({"concepts"}, [c \in Categories |-> IF c = "concepts" THEN recs ELSE <<>>])

\* The bundle file is missing or is not JSON.
BadBundle ==
    [readable |-> FALSE, cats |-> {}, lists |-> [c \in Categories |-> <<>>]]

\* The snapshot files found by the first startup: a fresh data directory.
InitSnapshots == { [c \in Categories |-> NoFile] }

\* ret between two calls: the caller has taken the last result.
NoRet == [op |-> "none"]
Idle == [pc |-> "idle"]

(***************************************************************************)
(* The state of a BiologyKnowledgeBase before __init__ runs (lines 28-47). *)
(***************************************************************************)
Init ==
    /\ phase = "new"
    /\ model = FALSE
    /\ data = [c \in Categories |-> <<>>]
    /\ file \in InitSnapshots
    /\ index = [c \in Categories |-> NoIndex]
    /\ is_initialized = FALSE
    /\ ret = NoRet
    /\ wpc = Idle
    /\ rpc = Idle
    /\ rloc = NoRet

(***************************************************************************)
(* Persistence.                                                            *)
(***************************************************************************)
\* _save_species_data / _save_concepts_data / _save_processes_data: the file
\* is rewritten with the list, unless the write raises (wok false).
SaveData(f, c, recs, wok) == IF wok THEN [f EXCEPT ![c] = Snapshot(recs)] ELSE f

\* LoadedData with the empty list for a snapshot that cannot be read.
LoadedDataNoFallback(f, c) ==
    IF f[c].state = "ok" THEN f[c].recs
    ELSE IF f[c].state = "absent" THEN DefaultData(c) ELSE <<>>

\* _load_species_data / _load_concepts_data / _load_processes_data: the
\* list loaded for category c.
LoadedData(f, c) ==
    IF f[c].state = "ok" THEN f[c].recs ELSE DefaultData(c)

\* LoadedFile without the save of lines 129, 146 and 163.
LoadedFileNotSaved(f, c, wok) == f[c]

\* The snapshot of category c after its load: the defaults are saved when
\* no file exists.
LoadedFile(f, c, wok) ==
    IF f[c] = NoFile /\ wok THEN Snapshot(DefaultData(c)) ELSE f[c]

(***************************************************************************)
(* _create_vector_indices: for each non-empty category, in the order       *)
(* species, concepts, processes, the texts are formatted and encoded by    *)
(* one model.encode call, and the index is replaced.  fail names the       *)
(* category whose encode call raises (NoFail: none does).  The first       *)
(* exception ends the build: the indices of the categories before it are   *)
(* replaced, the others are left as they were.                             *)
(***************************************************************************)
Unformattable(dat, c) == dat[c] # <<>> /\ FormatRaises(c, dat[c])

\* The encode calls a build of dat reaches.
FailChoices(dat) ==
    {NoFail} \cup {c \in Categories :
                     /\ dat[c] # <<>>
                     /\ \A d \in Categories : Pos(d) <= Pos(c) => ~Unformattable(dat, d)}

\* The category at which the build raises, NoFail when it completes.
FirstFailure(dat, fail) ==
    IF fail # NoFail THEN fail
    ELSE IF Unformattable(dat, "species") THEN "species"
    ELSE IF Unformattable(dat, "concepts") THEN "concepts"
    ELSE IF Unformattable(dat, "processes") THEN "processes"
    ELSE NoFail

Built(dat, c, at) == dat[c] # <<>> /\ (at = NoFail \/ Pos(c) < Pos(at))

CreateVectorIndices(m, dat, idx, fail) ==
    IF ~m THEN [index |-> idx, raised |-> FALSE]
    ELSE LET at == FirstFailure(dat, fail)
         IN [index |-> [c \in Categories |->
                           IF Built(dat, c, at) THEN IndexOf(EncodeAll(c, dat[c]))
                           ELSE idx[c]],
             raised |-> at # NoFail]

(***************************************************************************)
(* __init__ and _initialize_knowledge_base.  mload: the embedding model    *)
(* loads; dirOk: data_dir can be created; wok: the                         *)
(* snapshot writes succeed; fail: the encode call that raises.             *)
(***************************************************************************)
\* lines 89-94: the flag is set whenever a model is present, whatever
\* _create_vector_indices did
StartupFlag(m, raised) == m

Startup(mload, dirOk, wok, fail) ==
    /\ phase = "new"
    /\ ret.op = "none"
    /\ IF dirOk
       THEN LET dat == [c \in Categories |-> LoadedData(file, c)]
                b == CreateVectorIndices(mload, dat, index, fail)
            IN /\ fail \in FailChoices(dat)
               /\ mload \/ fail = NoFail
               /\ model' = mload
               /\ data' = dat
               /\ file' = [c \in Categories |-> LoadedFile(file, c, wok)]
               /\ index' = b.index
               /\ is_initialized' = StartupFlag(mload, b.raised)
       ELSE \* mkdir raises at line 78: lines 96-99, _create_default_data
            \* without a model, its saves failing on the same mkdir
            /\ \A c \in Categories : file[c] = NoFile
            /\ ~mload /\ fail = NoFail
            /\ model' = FALSE
            /\ data' = [c \in Categories |-> DefaultData(c)]
            /\ is_initialized' = FALSE
            /\ UNCHANGED <<file, index>>
    /\ phase' = "ready"
    /\ ret' = [op |-> "startup", dirOk |-> dirOk, wok |-> wok]
    /\ UNCHANGED thrvars

(***************************************************************************)
(* add_species / add_concept (there is no add for processes).              *)
(***************************************************************************)
TotalRecords == Len(data["species"]) + Len(data["concepts"]) + Len(data["processes"])

\* add_* without the rebuild of lines 510-511.
AddRebuildsNever == FALSE

\* lines 510 and 518
AddRebuilds == model /\ is_initialized

NotBuilt == [index |-> index, raised |-> FALSE]

Add(c, r, wok, fail) ==
    /\ phase = "ready"
    /\ ret.op = "none"
    /\ TotalRecords < MaxRecords
    /\ LET dat == [data EXCEPT ![c] = Append(@, r)]
           b == IF AddRebuilds THEN CreateVectorIndices(model, dat, index, fail)
                ELSE NotBuilt
       IN /\ fail \in FailChoices(dat)
          /\ AddRebuilds \/ fail = NoFail
          /\ data' = dat
          /\ file' = SaveData(file, c, dat[c], wok)
          /\ index' = b.index
          /\ is_initialized' = (IF b.raised THEN FALSE ELSE is_initialized)
          /\ ret' = [op |-> "add", cat |-> c, rec |-> r, wok |-> wok,
                     fail |-> fail, raised |-> b.raised, out |-> None]
    /\ UNCHANGED <<phase, model, thrvars>>

(***************************************************************************)
(* update_embeddings (refresh).  fail = NoFail: the provider works.        *)
(***************************************************************************)
\* line 812, reached whenever _create_vector_indices returns
RefreshFlag(raised) == TRUE

UpdateEmbeddings(fail) ==
    /\ phase = "ready"
    /\ ret.op = "none"
    /\ fail \in FailChoices(data)
    /\ model \/ fail = NoFail
    /\ IF ~model
       THEN /\ ret' = [op |-> "refresh", fail |-> fail, raised |-> FALSE,
                       out |-> FALSE]
            /\ UNCHANGED <<index, is_initialized>>
       ELSE LET b == CreateVectorIndices(model, data, index, fail)
            IN /\ index' = b.index
               /\ is_initialized' = RefreshFlag(b.raised)
               /\ ret' = [op |-> "refresh", fail |-> fail, raised |-> b.raised,
                          out |-> TRUE]
    /\ UNCHANGED <<phase, model, data, file, thrvars>>

(***************************************************************************)
(* import_knowledge_base.  b: the bundle read, or Unreadable when the file *)
(* is missing or is not JSON.                                              *)
(***************************************************************************)
\* ImportedData with the categories absent from the bundle emptied.
ImportedDataOnly(b, dat) ==
    [c \in Categories |-> IF c \in b.cats THEN b.lists[c] ELSE <<>>]

\* lines 847-852: the lists after the import of bundle b over the lists dat
ImportedData(b, dat) ==
    [c \in Categories |-> IF c \in b.cats THEN b.lists[c] ELSE dat[c]]

\* ImportRaises when open and json.load never raise.
ImportRaisesNever(b) == FALSE

\* lines 843-844: open or json.load raises, the except branch of lines
\* 865-867 returns False
ImportRaises(b) == ~b.readable

Import(b, wok, fail) ==
    /\ phase = "ready"
    /\ ret.op = "none"
    /\ IF ImportRaises(b)
       THEN /\ fail = NoFail
            /\ ret' = [op |-> "import", bundle |-> b, wok |-> wok, out |-> FALSE]
            /\ UNCHANGED <<data, file, index, is_initialized>>
       ELSE LET dat == ImportedData(b, data)
                bld == CreateVectorIndices(model, dat, index, fail)
            IN /\ fail \in FailChoices(dat)
               /\ model \/ fail = NoFail
               /\ data' = dat
               /\ file' = [c \in Categories |->
                              IF wok THEN Snapshot(dat[c]) ELSE file[c]]
               /\ index' = bld.index
               /\ is_initialized' = (IF bld.raised THEN FALSE ELSE is_initialized)
               /\ ret' = [op |-> "import", bundle |-> b, wok |-> wok, out |-> TRUE]
    /\ UNCHANGED <<phase, model, thrvars>>

(***************************************************************************)
(* get_statistics, get_system_status, export_knowledge_base.               *)
(***************************************************************************)
\* lines 783 and 924
SearchMode == IF is_initialized THEN "vector" ELSE "basic"

\* get_system_status, with the statistics it embeds; encOk: the test call
\* of model.encode at line 768 returns.
Status(encOk) ==
    /\ phase = "ready"
    /\ ret.op = "none"
    /\ model \/ encOk
    /\ ret' = [op |-> "status",
               embedding_dimension |->
                   IF ~model THEN None ELSE IF encOk THEN "3" ELSE "Desconocida",
               model_loaded |-> model,
               is_initialized |-> is_initialized,
               search_mode |-> SearchMode,
               indices_available |-> [c \in Categories |-> index[c].present],
               totals |-> [c \in Categories |-> Len(data[c])]]
    /\ UNCHANGED <<kbvars, thrvars>>

\* ExportBundle with the species only.
ExportBundleSpeciesOnly(dat) == Bundle({"species"}, dat)

\* lines 822-828, as import_knowledge_base reads them back: the three
\* lists (json.dump followed by json.load gives back the strings, the lists
\* of strings and the nulls the records are made of); the statistics and
\* the timestamp are not read by the import.
ExportBundle(dat) == Bundle(Categories, dat)

\* export_knowledge_base: the bundle file is written elsewhere than the
\* snapshots; exportOk: that write succeeds.  bundle: what a later
\* import_knowledge_base reads from export_path.
Export(exportOk) ==
    /\ phase = "ready"
    /\ ret.op = "none"
    /\ ret' = [op |-> "export", out |-> exportOk,
               bundle |-> IF exportOk THEN ExportBundle(data) ELSE BadBundle]
    /\ UNCHANGED <<kbvars, thrvars>>

(***************************************************************************)
(* search_species / search_concepts / search_processes, search_combined.   *)
(***************************************************************************)
Search(c, q, k, qfail) ==
    /\ phase = "ready"
    /\ ret.op = "none"
    /\ LET s == SearchCategory(c, data[c], model, index[c], is_initialized, q, k, qfail)
           called == data[c] # <<>> /\ UsesVector(model, index[c], is_initialized)
       IN /\ called \/ ~qfail
          /\ ret' = [op |-> "search", cat |-> c, q |-> q, k |-> k,
                     path |-> s.path, out |-> s.out]
    /\ UNCHANGED <<kbvars, thrvars>>

\* qfails: the categories whose query embedding raises
SearchCombined(q, k, qfails) ==
    /\ phase = "ready"
    /\ ret.op = "none"
    /\ LET called(c) == data[c] # <<>> /\ UsesVector(model, index[c], is_initialized)
           s == [c \in Categories |->
                    SearchCategory(c, data[c], model, index[c], is_initialized,
                                   q, k, c \in qfails)]
       IN /\ \A c \in qfails : called(c)
          /\ ret' = [op |-> "search_combined", q |-> q, k |-> k,
                     path |-> [c \in Categories |-> s[c].path],
                     out |-> [c \in Categories |-> s[c].out]]
    /\ UNCHANGED <<kbvars, thrvars>>

\* The caller takes the result of the call that returned last.
Return ==
    /\ ret.op # "none"
    /\ ret' = NoRet
    /\ UNCHANGED <<kbvars, thrvars>>

Fails == Categories \cup {NoFail}

\* The query embeddings that raise during one search_combined: none, or
\* the one of a single category.
QueryFails == {{}} \cup {{c} : c \in Categories}

(***************************************************************************)
(* Spec: the embedding provider may fail at any call; data_dir can be      *)
(* created and the snapshot writes succeed.                                *)
(***************************************************************************)
Next ==
    \/ \E mload \in BOOLEAN, fail \in Fails : Startup(mload, TRUE, TRUE, fail)
    \/ \E c \in AddCategories, r \in RecordPool, fail \in Fails : Add(c, r, TRUE, fail)
    \/ \E fail \in Fails : UpdateEmbeddings(fail)
    \/ \E b \in Bundles \cup {BadBundle}, fail \in Fails : Import(b, TRUE, fail)
    \/ \E encOk \in BOOLEAN : Status(encOk)
    \/ \E exportOk \in BOOLEAN : Export(exportOk)
    \/ \E c \in Categories, q \in Queries, k \in Ks, qfail \in BOOLEAN :
          Search(c, q, k, qfail)
    \/ \E q \in Queries, qfails \in QueryFails :
          SearchCombined(q, CombinedTopK, qfails)
    \/ Return

Spec == Init /\ [][Next]_vars

(***************************************************************************)
(* C1.  In every state reached by startup and any sequence of add, import, *)
(* refresh and search, each category's index is absent or holds exactly    *)
(* the vectors of the records now stored in the category, in order, and a  *)
(* vector search is never answered from another index.                     *)
(* Fails: a build whose encode call raises keeps the index it found.       *)
(***************************************************************************)
C1_IndexAbsentOrCurrent ==
    /\ \A c \in Categories : index[c] = NoIndex \/ IndexCurrent(c)
    /\ (ret.op = "search" /\ ret.path = "vector") => IndexCurrent(ret.cat)

(***************************************************************************)
(* C3.  A search of a known category returns a list and never raises, on   *)
(* the vector path, the basic path and the fallback from the first to the  *)
(* second, for every store content, query and top_k.                       *)
(* Fails: add and import accept a record whose keywords are null, and the  *)
(* basic search, which has no try block, raises TypeError on it.           *)
(***************************************************************************)
Paths == {"empty", "vector", "fallback", "basic"}

C3_SearchNeverRaises ==
    /\ ret.op = "search" => ret.path \in Paths
    /\ ret.op = "search_combined" => \A c \in Categories : ret.path[c] \in Paths

(***************************************************************************)
(* C5.  From the LexicalOnly state a refresh re-attempts vector mode: when *)
(* the provider works at the time of the refresh and the build does not    *)
(* raise, whatever happened at startup, every LexicalOnly category is      *)
(* VectorReady afterwards.                                                 *)
(* Fails: update_embeddings returns False when no model was loaded at      *)
(* startup, and nothing loads the model again.                             *)
(***************************************************************************)
C5_RefreshAlwaysRecovers ==
    [][(ret'.op = "refresh" /\ ~ret'.raised) =>
          \A c \in Categories : LexicalOnly(c) => VectorReady(c)']_vars

(***************************************************************************)
(* C6.  Once a category is LexicalOnly, no search, search_combined, add,   *)
(* import, export or status moves it to VectorReady.                       *)
(* Fails: startup and refresh set the flag after a failed build, and the   *)
(* next add or import then builds the index.                               *)
(***************************************************************************)
C6_NoAutomaticRetry ==
    [][ret'.op \in {"search", "search_combined", "add", "import", "export", "status"} =>
          \A c \in Categories : LexicalOnly(c) => ~VectorReady(c)']_vars

(***************************************************************************)
(* C7.  When the vector query of a VectorReady category fails, the call    *)
(* returns what the basic search gives for the same query and top_k, and   *)
(* the category stays VectorReady with the same index.                     *)
(***************************************************************************)
C7_FallbackIsLexical ==
    [][(ret'.op = "search" /\ ret'.path = "fallback") =>
          \E c \in Categories :
              /\ c = ret'.cat
              /\ VectorReady(c)
              /\ ret'.out = BasicSearch(c, data[c], ret'.q, ret'.k)
              /\ UNCHANGED kbvars
              /\ VectorReady(c)']_vars

C7_Witness ==
    /\ ret.op = "search"
    /\ ret.path = "fallback"
    /\ ret.out # <<>>
    /\ VectorReady(ret.cat)

(***************************************************************************)
(* C8.  An add or a build failure in one category never changes the state  *)
(* or the index of another category.                                       *)
(* Fails: the three indices are built in one try block under one flag.     *)
(***************************************************************************)
C8_CategoriesIndependent ==
    [][ret'.op = "add" =>
          \A d \in Categories \ {ret'.cat} :
              /\ index'[d] = index[d]
              /\ VectorReady(d)' = VectorReady(d)]_vars

(***************************************************************************)
(* C9.  An add of a record whose name is absent or empty fails with a      *)
(* ValidationError and leaves the list, the snapshot and the index as they *)
(* were.                                                                   *)
(* Fails: add_species and add_concept append whatever they are given.      *)
(***************************************************************************)
C9_AddRejectsMissingName ==
    [][(ret'.op = "add" /\ NameMissing(ret'.rec)) =>
          /\ ret'.out = "ValidationError"
          /\ data' = data /\ file' = file /\ index' = index]_vars

FirstNonEmpty(dat) ==
    IF dat["species"] # <<>> THEN "species"
    ELSE IF dat["concepts"] # <<>> THEN "concepts"
    ELSE IF dat["processes"] # <<>> THEN "processes"
    ELSE NoFail

\* The encode call that raises in a build of dat: the first one reached.
RaisingFail(dat) ==
    IF FirstNonEmpty(dat) \in FailChoices(dat) THEN FirstNonEmpty(dat) ELSE NoFail

NextRaising ==
    \/ \E mload \in BOOLEAN, fail \in Fails :
          /\ Startup(mload, TRUE, TRUE, fail)
          /\ fail = (IF mload THEN RaisingFail(data') ELSE NoFail)
    \/ \E c \in AddCategories, r \in RecordPool, fail \in Fails :
          /\ Add(c, r, TRUE, fail)
          /\ fail = (IF AddRebuilds THEN RaisingFail(data') ELSE NoFail)
    \/ \E fail \in Fails :
          /\ UpdateEmbeddings(fail)
          /\ fail = (IF model THEN RaisingFail(data) ELSE NoFail)
    \/ \E c \in Categories, q \in Queries, k \in Ks, qfail \in BOOLEAN :
          /\ Search(c, q, k, qfail)
          /\ qfail = (data[c] # <<>> /\ UsesVector(model, index[c], is_initialized))
    \/ Status(~model)
    \/ Return

SpecRaising == Init /\ [][NextRaising]_vars

(***************************************************************************)
(* C4.  With a provider whose every call raises, after startup and any     *)
(* sequence of search, add and refresh, every search returns the result of *)
(* the basic search, every non-empty category is LexicalOnly and the       *)
(* reported search mode is not "vector".                                   *)
(* Fails: lines 91 and 812 set is_initialized after a build that failed.   *)
(***************************************************************************)
C4_RaisingProviderStaysLexical ==
    phase = "ready" =>
        /\ \A c \in Categories : data[c] # <<>> => LexicalOnly(c)
        /\ SearchMode # "vector"
        /\ ret.op = "status" => ret.search_mode # "vector"
        /\ ret.op = "search" =>
              /\ ret.path \in {"empty", "basic", "fallback"}
              /\ ret.out = BasicSearch(ret.cat, data[ret.cat], ret.q, ret.k)

(***************************************************************************)
(* SpecConc: two sessions share the BiologyKnowledgeBase (st.cache_resource *)
(* in streamlit_app.py) and no method takes a lock.  One thread runs       *)
(* add_species / add_concept and the build it triggers statement by        *)
(* statement, the other runs a search; wpc and rpc are their positions.    *)
(* The provider works throughout.                                          *)
(***************************************************************************)
ConcRecords == {RecA}

\* The writer's position after the block of category c in
\* _create_vector_indices.
AfterBuild(c) ==
    IF c = "species" THEN [pc |-> "build", cat |-> "concepts"]
    ELSE IF c = "concepts" THEN [pc |-> "build", cat |-> "processes"]
    ELSE Idle

\* lines 507 and 516: the append
WAppend(c, r) ==
    /\ phase = "ready"
    /\ wpc.pc = "idle"
    /\ TotalRecords < MaxRecords
    /\ data' = [data EXCEPT ![c] = Append(@, r)]
    /\ wpc' = [pc |-> "save", cat |-> c]
    /\ UNCHANGED <<phase, model, file, index, is_initialized, ret, rpc, rloc>>

\* lines 508-511 and 517-519: the save, and the test that starts the build
WSave ==
    /\ wpc.pc = "save"
    /\ file' = SaveData(file, wpc.cat, data[wpc.cat], TRUE)
    /\ wpc' = IF model /\ is_initialized THEN [pc |-> "build", cat |-> "species"]
              ELSE Idle
    /\ UNCHANGED <<phase, model, data, index, is_initialized, ret, rpc, rloc>>

\* lines 178-180, 191-193, 202-204: the texts of the category are formatted
\* and encoded; lines 214-216 when that raises
WEncode ==
    /\ wpc.pc = "build"
    /\ LET c == wpc.cat
       IN IF data[c] = <<>>
          THEN wpc' = AfterBuild(c) /\ UNCHANGED is_initialized
          ELSE IF FormatRaises(c, data[c])
          THEN wpc' = Idle /\ is_initialized' = FALSE
          ELSE /\ wpc' = [pc |-> "create", cat |-> c, vecs |-> EncodeAll(c, data[c])]
               /\ UNCHANGED is_initialized
    /\ UNCHANGED <<phase, model, data, file, index, ret, rpc, rloc>>

\* lines 184, 196, 207: self.X_index = faiss.IndexFlatIP(dimension)
WCreate ==
    /\ wpc.pc = "create"
    /\ index' = [index EXCEPT ![wpc.cat] = IndexOf(<<>>)]
    /\ wpc' = [wpc EXCEPT !.pc = "fill"]
    /\ UNCHANGED <<phase, model, data, file, is_initialized, ret, rpc, rloc>>

\* lines 188, 199, 210: self.X_index.add(embeddings)
WFill ==
    /\ wpc.pc = "fill"
    /\ index' = [index EXCEPT ![wpc.cat] = IndexOf(wpc.vecs)]
    /\ wpc' = AfterBuild(wpc.cat)
    /\ UNCHANGED <<phase, model, data, file, is_initialized, ret, rpc, rloc>>

\* search_*: the tests of lines 266-274 and the encoding of the query; the
\* basic search when the vector path is not taken
RStart(c, q, k) ==
    /\ phase = "ready"
    /\ rpc.pc = "idle"
    /\ IF data[c] # <<>> /\ UsesVector(model, index[c], is_initialized)
       THEN /\ rpc' = [pc |-> "query", cat |-> c, q |-> q, k |-> k]
            /\ rloc' = NoRet
       ELSE LET s == SearchCategory(c, data[c], model, index[c], is_initialized,
                                    q, k, FALSE)
            IN /\ rloc' = [op |-> "searched", cat |-> c, path |-> s.path,
                           out |-> s.out]
               /\ UNCHANGED rpc
    /\ UNCHANGED <<kbvars, ret, wpc>>

\* lines 284-287: self.X_index.search(..., min(top_k, len(self.X_data))) on
\* the index and the list of that moment
RQuery ==
    /\ rpc.pc = "query"
    /\ LET c == rpc.cat
           found == IndexSearch(index[c].vecs, Encode(rpc.q), Min(rpc.k, Len(data[c])))
       IN rpc' = [pc |-> "collect", cat |-> c, q |-> rpc.q, k |-> rpc.k,
                  found |-> SelectSeq(found, LAMBDA h : h.pos # 0),
                  idx |-> index[c], recs |-> data[c]]
    /\ UNCHANGED <<kbvars, ret, wpc, rloc>>

\* lines 290-303: the records of the hits are read from the list of that
\* moment; the basic search answers when a position is not in the list
RCollect ==
    /\ rpc.pc = "collect"
    /\ LET c == rpc.cat
           kept == rpc.found
       IN IF \E j \in 1..Len(kept) : kept[j].pos > Len(data[c])
          THEN LET s == VectorFallback(c, data[c], rpc.q, rpc.k)
               IN rloc' = [op |-> "searched", cat |-> c, path |-> s.path,
                           out |-> s.out]
          ELSE rloc' = [op |-> "searched", cat |-> c, path |-> "vector",
                        idx |-> rpc.idx, recs |-> rpc.recs,
                        out |-> [j \in 1..Len(kept) |->
                                    VectorResult(c, data[c][kept[j].pos],
                                                 kept[j].score)]]
    /\ rpc' = Idle
    /\ UNCHANGED <<kbvars, ret, wpc>>

NextConc ==
    \/ Startup(TRUE, TRUE, TRUE, NoFail)
    \/ \E c \in AddCategories, r \in ConcRecords : WAppend(c, r)
    \/ WSave
    \/ WEncode
    \/ WCreate
    \/ WFill
    \/ \E c \in Categories, q \in Queries, k \in Ks : RStart(c, q, k)
    \/ RQuery
    \/ RCollect

SpecConc == Init /\ [][NextConc]_vars

(***************************************************************************)
(* C2.  A search that runs while an add rebuilds the index of its category *)
(* is answered from the list and the index of before the add, or from      *)
(* those of after the rebuild: the index it queries holds the vectors of   *)
(* the list it reads, never an empty new index nor an index that lacks the *)
(* record already appended.                                                *)
(* Fails: the list, the empty index and the filled index become visible    *)
(* one after the other, and the search takes no lock.                      *)
(***************************************************************************)
C2_SearchSeesWholePair ==
    (rloc.op = "searched" /\ rloc.path = "vector") =>
        IndexHolds(rloc.cat, rloc.idx, rloc.recs)

(***************************************************************************)
(* C12.  A search of a category that holds no record returns the empty     *)
(* list at once: it does not raise and calls neither the provider nor the  *)
(* index, whatever the query, top_k, the model and the index are.          *)
(***************************************************************************)
C12_EmptyCategoryReturnsEmpty ==
    /\ (ret.op = "search" /\ data[ret.cat] = <<>>) =>
          (ret.path = "empty" /\ ret.out = <<>>)
    /\ ret.op = "search_combined" =>
          \A c \in Categories :
              data[c] = <<>> => (ret.path[c] = "empty" /\ ret.out[c] = <<>>)

\* A search of an emptied category whose index of before the import is
\* still there, with the model loaded and is_initialized set.
C12_Witness ==
    /\ ret.op = "search"
    /\ data[ret.cat] = <<>>
    /\ ret.out = <<>>
    /\ UsesVector(model, index[ret.cat], is_initialized)

(***************************************************************************)
(* C13.  Every record a search returns, in every category and on the       *)
(* vector, the fallback and the basic path, has the three derived fields   *)
(* similarity_score, confidence and search_method.                         *)
(***************************************************************************)
DerivedFields == {"similarity_score", "confidence", "search_method"}

C13_ResultsCarryDerivedFields ==
    ret.op = "search" =>
        \A j \in 1..Len(ret.out) : DerivedFields \subseteq DOMAIN ret.out[j]

(***************************************************************************)
(* SpecAddSearch: an add and then a search of the same category for the    *)
(* name of the added record with top_k = 1, over the stores a startup and  *)
(* an import leave.                                                        *)
(***************************************************************************)
AddedPool == {RecA, RecBB, RecNullKeywords}

\* search_*(r['name'], 1) by the caller whose add_*(r) has just returned
SearchAdded(qfail) ==
    /\ phase = "ready"
    /\ ret.op = "add"
    /\ ~NameMissing(ret.rec)
    /\ LET c == ret.cat
           q == ret.rec.name
           s == SearchCategory(c, data[c], model, index[c], is_initialized, q, 1, qfail)
       IN /\ UsesVector(model, index[c], is_initialized) \/ ~qfail
          /\ ret' = [op |-> "search_added", cat |-> c, rec |-> ret.rec, q |-> q,
                     path |-> s.path, out |-> s.out]
    /\ UNCHANGED <<kbvars, thrvars>>

NextAddSearch ==
    \/ \E mload \in BOOLEAN, fail \in Fails : Startup(mload, TRUE, TRUE, fail)
    \/ \E b \in Bundles, fail \in Fails : Import(b, TRUE, fail)
    \/ \E c \in AddCategories, r \in AddedPool, fail \in Fails : Add(c, r, TRUE, fail)
    \/ \E qfail \in BOOLEAN : SearchAdded(qfail)
    \/ Return

SpecAddSearch == Init /\ [][NextAddSearch]_vars

\* The fields a search adds to the copy it returns.
ResultFields == {"similarity_score", "confidence", "relevance_score", "search_method"}

\* The stored record a result is the copy of.
Stored(res) == [f \in DOMAIN res \ ResultFields |-> res[f]]

\* The score the search of the given path computes for record r.
PathScore(c, path, r, q) ==
    IF path = "vector" THEN Cosine(Encode(q), Encode(FormatText(c, r)))
    ELSE BasicScore(c, r, q)

ImportBundles == Bundles \cup {ConceptsBundle(<<Photosynthesis>>), BadBundle}

ImportQueries == {<<"a">>, LightEnergy}

NextImport ==
    \/ \E mload \in BOOLEAN, fail \in Fails : Startup(mload, TRUE, TRUE, fail)
    \/ \E fail \in Fails : UpdateEmbeddings(fail)
    \/ \E b \in ImportBundles, wok \in BOOLEAN, fail \in Fails : Import(b, wok, fail)
    \/ \E c \in Categories, q \in ImportQueries, qfail \in BOOLEAN :
          Search(c, q, DefaultTopK, qfail)
    \/ Return

SpecImport == Init /\ [][NextImport]_vars

C16_LightEnergyScenario ==
    (/\ ret.op = "search"
     /\ ret.cat = "concepts"
     /\ ret.q = LightEnergy
     /\ data["concepts"] = <<Photosynthesis>>
     /\ ret.path = "basic") =>
        /\ Len(ret.out) = 1
        /\ Stored(ret.out[1]) = Photosynthesis
        /\ ScoreOf("concepts", ret.out[1]) = 400
        /\ "confidence" \in DOMAIN ret.out[1]
        /\ ret.out[1]["confidence"] = 50

\* The part of the scenario the code serves: the record is returned with
\* relevance_score 0.4.
C16_ScoreOnly ==
    (/\ ret.op = "search"
     /\ ret.cat = "concepts"
     /\ ret.q = LightEnergy
     /\ data["concepts"] = <<Photosynthesis>>
     /\ ret.path = "basic") =>
        /\ Len(ret.out) = 1
        /\ Stored(ret.out[1]) = Photosynthesis
        /\ ScoreOf("concepts", ret.out[1]) = 400
        /\ DOMAIN ret.out[1] = DOMAIN Photosynthesis \cup {"relevance_score", "search_method"}

(***************************************************************************)
(* SpecDisk: startups over data directories whose snapshots are absent,    *)
(* unreadable or present, with writes that succeed or fail, and the        *)
(* startup of a later process over what the earlier one left.              *)
(***************************************************************************)
SavedRecords == <<RecB, RecA>>

DiskSnapshots ==
    [Categories -> {NoFile, Unreadable, Snapshot(SavedRecords)}]

InitDisk ==
    /\ phase = "new"
    /\ model = FALSE
    /\ data = [c \in Categories |-> <<>>]
    /\ file \in DiskSnapshots
    /\ index = [c \in Categories |-> NoIndex]
    /\ is_initialized = FALSE
    /\ ret = NoRet
    /\ wpc = Idle
    /\ rpc = Idle
    /\ rloc = NoRet

\* The process ends and a new one constructs BiologyKnowledgeBase() over
\* the same data directory: the fields are those of lines 28-47 again.
Restart ==
    /\ phase = "ready"
    /\ ret.op = "none"
    /\ phase' = "new"
    /\ model' = FALSE
    /\ data' = [c \in Categories |-> <<>>]
    /\ index' = [c \in Categories |-> NoIndex]
    /\ is_initialized' = FALSE
    /\ UNCHANGED <<file, ret, thrvars>>

NextDisk ==
    \/ \E mload, dirOk, wok \in BOOLEAN, fail \in Fails : Startup(mload, dirOk, wok, fail)
    \/ \E c \in AddCategories, wok \in BOOLEAN : Add(c, RecA, wok, NoFail)
    \/ Restart
    \/ Return

SpecDisk == InitDisk /\ [][NextDisk]_vars

(***************************************************************************)
(* C17.  At a startup whose writes succeed, a category without a snapshot  *)
(* gets its default records as its list and a snapshot of exactly those    *)
(* records, a category with a snapshot gets the records of the snapshot,   *)
(* which is left as it is, and in both cases a startup over the files the  *)
(* first one leaves loads the same list again.                             *)
(***************************************************************************)
C17_AbsentSnapshotSelfHeals ==
    [][(ret'.op = "startup" /\ ret'.dirOk /\ ret'.wok) =>
          \A c \in Categories :
              /\ file[c] = NoFile =>
                    /\ data'[c] = DefaultData(c)
                    /\ file'[c] = Snapshot(DefaultData(c))
              /\ file[c].state = "ok" =>
                    /\ data'[c] = file[c].recs
                    /\ file'[c] = file[c]
              /\ file[c] # Unreadable => LoadedData(file', c) = data'[c]]_vars

\* A startup returned with the species defaults written and the concepts
\* loaded from their snapshot.
C17_Witness ==
    /\ ret.op = "startup"
    /\ ret.dirOk /\ ret.wok
    /\ data["species"] = DefaultData("species")
    /\ file["species"] = Snapshot(DefaultData("species"))
    /\ data["concepts"] = SavedRecords
    /\ file["concepts"] = Snapshot(SavedRecords)

(***************************************************************************)
(* C18.  At startup a category whose snapshot cannot be read gets its      *)
(* default records as its list; the startup completes, and every category  *)
(* whose snapshot can be read gets the records of its own snapshot.        *)
(***************************************************************************)
C18_UnreadableSnapshotFallsBack ==
    [][ret'.op = "startup" =>
          /\ phase' = "ready"
          /\ \A c \in Categories :
                /\ file[c] = Unreadable => data'[c] = DefaultData(c)
                /\ file[c].state = "ok" => data'[c] = file[c].recs]_vars

\* A startup returned with the species snapshot unreadable and the concepts
\* loaded from their snapshot.
C18_Witness ==
    /\ ret.op = "startup"
    /\ phase = "ready"
    /\ file["species"] = Unreadable
    /\ data["species"] = DefaultData("species")
    /\ file["concepts"] = Snapshot(SavedRecords)
    /\ data["concepts"] = SavedRecords

(***************************************************************************)
(* SpecRoundTrip: an export, then a BiologyKnowledgeBase constructed over  *)
(* an empty data directory that imports the exported file.                 *)
(***************************************************************************)
\* The answers of the store to every search that does not fail at the
\* query embedding.
AllSearches(dat, m, idx, init) ==
    [c \in Categories |-> [q \in Queries |-> [k \in Ks |->
        SearchCategory(c, dat[c], m, idx[c], init, q, k, FALSE)]]]

\* BiologyKnowledgeBase() over an empty directory (mload: the model loads,
\* fail1: the encode call of the startup build that raises), then
\* import_knowledge_base(export_path) (fail2: the same for its build).  The
\* state becomes that of the new store; ret keeps the lists and the answers
\* of the store that exported.
RestoreFresh(mload, fail1, fail2) ==
    /\ phase = "ready"
    /\ ret.op = "export"
    /\ ret.out
    /\ LET dat0 == [c \in Categories |-> DefaultData(c)]
           b0 == CreateVectorIndices(mload, dat0, [c \in Categories |-> NoIndex], fail1)
           dat1 == ImportedData(ret.bundle, dat0)
           b1 == CreateVectorIndices(mload, dat1, b0.index, fail2)
       IN /\ fail1 \in FailChoices(dat0)
          /\ fail2 \in FailChoices(dat1)
          /\ mload \/ (fail1 = NoFail /\ fail2 = NoFail)
          /\ model' = mload
          /\ data' = dat1
          /\ file' = [c \in Categories |-> Snapshot(dat1[c])]
          /\ index' = b1.index
          /\ is_initialized' =
                (IF b1.raised THEN FALSE ELSE StartupFlag(mload, b0.raised))
    /\ ret' = [op |-> "restored",
               lists |-> data,
               before |-> AllSearches(data, model, index, is_initialized),
               current |-> [c \in Categories |-> IndexCurrent(c)]]
    /\ UNCHANGED <<phase, thrvars>>

NextRoundTrip ==
    \/ \E mload \in BOOLEAN, fail \in Fails : Startup(mload, TRUE, TRUE, fail)
    \/ \E c \in AddCategories, r \in RecordPool, fail \in Fails : Add(c, r, TRUE, fail)
    \/ \E fail \in Fails : UpdateEmbeddings(fail)
    \/ \E exportOk \in BOOLEAN : Export(exportOk)
    \/ \E mload \in BOOLEAN, fail1, fail2 \in Fails : RestoreFresh(mload, fail1, fail2)
    \/ Return

SpecRoundTrip == Init /\ [][NextRoundTrip]_vars

MaxKeywords == 2

RandomCategories == {"species", "concepts"}

\* r['name'] = 'b' by the holder of r
WithName(r) == Extend(r, [name |-> <<"b">>])

\* r['keywords'].append('a') by the holder of r
WithKeyword(r) == [r EXCEPT !["keywords"] = Append(@, <<"a">>)]

HasKeywordList(r) ==
    /\ "keywords" \in DOMAIN r
    /\ r["keywords"] # NullList
    /\ Len(r["keywords"]) < MaxKeywords

\* get_random_species(1) / get_random_concepts(1): random.sample returns
\* the dict stored at a position i of the list, not a copy of it.
GetRandom(c, i) ==
    /\ phase = "ready"
    /\ ret.op = "none"
    /\ i \in 1..Len(data[c])
    /\ ret' = [op |-> "random", cat |-> c, pos |-> i, out |-> <<data[c][i]>>]
    /\ UNCHANGED <<kbvars, thrvars>>

\* The caller of add_*(r) writes to r afterwards: line 507 (516) appended r
\* itself, so the last record of the list is written.
MutateAdded ==
    /\ ret.op = "add"
    /\ LET c == ret.cat
       IN data' = [data EXCEPT ![c][Len(data[c])] = WithName(@)]
    /\ ret' = [op |-> "mutated", via |-> "add"]
    /\ UNCHANGED <<phase, model, file, index, is_initialized, thrvars>>

\* The caller of get_random_* writes to the record it received.
MutateRandom ==
    /\ ret.op = "random"
    /\ data' = [data EXCEPT ![ret.cat][ret.pos] = WithName(@)]
    /\ ret' = [op |-> "mutated", via |-> "random"]
    /\ UNCHANGED <<phase, model, file, index, is_initialized, thrvars>>

\* The caller of search_* assigns a field of the first result: the result
\* is the copy of lines 293 and 333, the stored record keeps its field.
MutateResultField ==
    /\ ret.op = "search"
    /\ ret.out # <<>>
    /\ ret' = [op |-> "mutated", via |-> "result field"]
    /\ UNCHANGED <<kbvars, thrvars>>

\* The caller of search_* appends to the keywords of the first result:
\* dict.copy() copies the references, so the list is the stored record's.
\* i is the position of the record the result was copied from.
MutateResultList ==
    /\ ret.op = "search"
    /\ ret.out # <<>>
    /\ HasKeywordList(Stored(ret.out[1]))
    /\ \E i \in 1..Len(data[ret.cat]) :
          /\ data[ret.cat][i] = Stored(ret.out[1])
          /\ \A j \in 1..Len(data[ret.cat]) : data[ret.cat][j] = data[ret.cat][i] => j = i
          /\ data' = [data EXCEPT ![ret.cat][i] = WithKeyword(@)]
    /\ ret' = [op |-> "mutated", via |-> "result list"]
    /\ UNCHANGED <<phase, model, file, index, is_initialized, thrvars>>

NextAlias ==
    \/ \E mload \in BOOLEAN : Startup(mload, TRUE, TRUE, NoFail)
    \/ \E c \in AddCategories : Add(c, RecBB, TRUE, NoFail)
    \/ \E c \in RandomCategories, i \in 1..MaxRecords : GetRandom(c, i)
    \/ \E c \in Categories, q \in Queries : Search(c, q, DefaultTopK, FALSE)
    \/ MutateAdded
    \/ MutateRandom
    \/ MutateResultField
    \/ MutateResultList
    \/ Return

SpecAlias == Init /\ [][NextAlias]_vars

(***************************************************************************)
(* C14.  No write of a caller to a record it passed to add, or received    *)
(* from a search (its list fields included) or from get_random_*, changes  *)
(* a stored record, and no stored record has a derived field.              *)
(***************************************************************************)
C14_NoMutableAlias ==
    [][/\ ret'.op = "mutated" => data' = data
       /\ \A c \in Categories : \A i \in 1..Len(data'[c]) :
             DOMAIN data'[c][i] \cap ResultFields = {}]_vars

\* The two parts of C14 the code serves: a field assigned on a search
\* result stays in the copy, and no stored record has a derived field.
C14_CopiesProtectFields ==
    [][/\ (ret'.op = "mutated" /\ ret'.via = "result field") => data' = data
       /\ \A c \in Categories : \A i \in 1..Len(data'[c]) :
             DOMAIN data'[c][i] \cap ResultFields = {}]_vars

(***************************************************************************)
(* C28.  The search_method of a result names the path that produced it.    *)
(* Results labelled 'vector' come from the vector path, which is taken     *)
(* only with a model, an index of the category and is_initialized set;     *)
(* the results of the fallback after a failed vector query and of the      *)
(* basic path are labelled 'basic'; one list has one label.                *)
(***************************************************************************)
C28_LabelNamesThePath ==
    ret.op = "search" =>
        /\ \A j \in 1..Len(ret.out) :
              /\ ret.out[j]["search_method"] \in {"vector", "basic"}
              /\ ret.out[j]["search_method"] = "vector" <=> ret.path = "vector"
        /\ ret.path \in {"vector", "fallback"} =>
              UsesVector(model, index[ret.cat], is_initialized)
        /\ ret.path = "basic" =>
              ~UsesVector(model, index[ret.cat], is_initialized)

\* A failed vector query answered by the fallback, with a result.
C28_Witness ==
    /\ ret.op = "search"
    /\ ret.path = "fallback"
    /\ ret.out # <<>>
    /\ ret.out[1]["search_method"] = "basic"

(***************************************************************************)
(* C29.  An import whose bundle file is missing or is not JSON returns     *)
(* False and changes no record list, no snapshot, no index and not the     *)
(* is_initialized flag.                                                    *)
(***************************************************************************)
C29_FailedImportChangesNothing ==
    [][(ret'.op = "import" /\ ~ret'.bundle.readable) =>
          /\ ret'.out = FALSE
          /\ UNCHANGED <<data, file, index, is_initialized>>]_vars

\* A failed import of a store that is VectorReady.
C29_Witness ==
    /\ ret.op = "import"
    /\ ~ret.bundle.readable
    /\ ret.out = FALSE
    /\ VectorReady("species")
    /\ IndexCurrent("species")

(***************************************************************************)
(* C22.  The status names, for every category that holds records, the      *)
(* path its searches take: the reported search mode is vector exactly when *)
(* a search of the category would take the vector path; the reported       *)
(* totals are the lengths of the record lists.                             *)
(***************************************************************************)
C22_StatusTellsTheSearchPath ==
    ret.op = "status" =>
        \A c \in Categories :
            /\ ret.totals[c] = Len(data[c])
            /\ data[c] # <<>> =>
                  (ret.search_mode = "vector" <=>
                      UsesVector(model, index[c], is_initialized))

\* The part of C22 the code serves: the totals, the flags and the per
\* category presence of an index are reported as they are.
C22_StatusReportsFields ==
    ret.op = "status" =>
        /\ ret.model_loaded = model
        /\ ret.is_initialized = is_initialized
        /\ \A c \in Categories :
              /\ ret.totals[c] = Len(data[c])
              /\ ret.indices_available[c] = index[c].present

(***************************************************************************)
(* SpecScore: the basic scorer and the two projections of a record, over   *)
(* records with all, some or none of the optional fields and over queries  *)
(* with repeated words, repeated blanks, capitals and no character at all. *)
(***************************************************************************)
RecFamily == [name |-> <<"a">>, family |-> <<"b">>]

RecFull ==
    [name |-> <<"a">>, scientific_name |-> <<"b">>, characteristics |-> <<"a", "b">>,
     habitat |-> <<"b">>, behavior |-> <<"a">>, keywords |-> << <<"b">>, <<"a">> >>]

ScoreRecords == {RecA, RecB, RecBB, RecEmptyName, RecFamily, RecFull}

ScoreQueries ==
    {<<>>, <<"a">>, <<"A", SP, "b">>, <<"a", SP, "a">>, <<"b", SP, SP, "a">>,
     <<"b", "b">>, <<"a", "b", SP, "a">>}

\* One pass of the loop of _basic_search_* (lines 310-331) for record r.
ScoreRecord(c, r, q) ==
    /\ ret.op = "none"
    /\ ret' = [op |-> "score", cat |-> c, rec |-> r, q |-> q,
               score |-> BasicScore(c, r, q)]
    /\ UNCHANGED <<kbvars, thrvars>>

RECURSIVE Pick(_, _, _)
\* The elements of s at the positions of S, in order, from position i on.
Pick(s, S, i) ==
    IF i > Len(s) THEN <<>>
    ELSE (IF i \in S THEN <<s[i]>> ELSE <<>>) \o Pick(s, S, i + 1)

\* The text _format_*_text gives for r as a query, and a query made of the
\* words of that text at the positions S, both scored for r by the loop of
\* _basic_search_*.
ScoreSubset(c, r, S) ==
    /\ ret.op = "none"
    /\ LET full == FormatText(c, r)
           words == Split(full)
           sub == JoinSp(Pick(words, S, 1))
       IN /\ S # {}
          /\ S \subseteq 1..Len(words)
          /\ S # 1..Len(words)
          /\ ret' = [op |-> "subset", cat |-> c, rec |-> r, full |-> full,
                     sub |-> sub,
                     fullScore |-> BasicScore(c, r, full),
                     subScore |-> BasicScore(c, r, sub)]
    /\ UNCHANGED <<kbvars, thrvars>>

MaxWords == 6

NextScore ==
    \/ \E c \in Categories, r \in ScoreRecords, q \in ScoreQueries : ScoreRecord(c, r, q)
    \/ \E c \in Categories, r \in ScoreRecords, S \in SUBSET (1..MaxWords) :
          ScoreSubset(c, r, S)
    \/ Return

SpecScore == Init /\ [][NextScore]_vars

(***************************************************************************)
(* C23.  The basic score of a record for a query is 0.8 if the lower-cased *)
(* query is a substring of the lower-cased text of the record, else 0,     *)
(* plus 0.2 for every word of the lower-cased query, each occurrence       *)
(* counted, that is a substring of that text.                              *)
(***************************************************************************)
C23_ScoreIsWholePlusWords ==
    ret.op = "score" =>
        LET text == SearchableText(ret.cat, ret.rec)
            words == Split(Lower(ret.q))
            whole == IF IsSubstr(Lower(ret.q), text) THEN 800 ELSE 0
            hits == {i \in 1..Len(words) : IsSubstr(words[i], text)}
        IN ret.score = whole + 200 * Cardinality(hits)

\* A query that repeats a word of the record and is not in its text as a
\* whole: 0.2 twice.
C23_Witness ==
    /\ ret.op = "score"
    /\ ret.q = <<"a", SP, "a">>
    /\ ret.rec = RecA
    /\ ret.score = 400

(***************************************************************************)
(* C26.  The text the basic search scores for a record is the projection   *)
(* that is embedded for it: the same fields in the same order (compared    *)
(* word by word, in lower case, so that the blanks a missing field leaves  *)
(* do not count).                                                          *)
(***************************************************************************)
C26_OneProjection ==
    ret.op = "score" =>
        Split(SearchableText(ret.cat, ret.rec)) =
            Split(Lower(FormatText(ret.cat, ret.rec)))

(***************************************************************************)
(* C21.  For every record, the query equal to its whole projected text     *)
(* scores at least as much as a query made of a strict subset of the words *)
(* of that text.                                                           *)
(***************************************************************************)
C21_WholeTextScoresHighest ==
    ret.op = "subset" => ret.fullScore >= ret.subScore

(***************************************************************************)
(* SpecRank: searches with a top_k that is negative, zero, smaller and     *)
(* larger than the category, over stores in which a later record can       *)
(* outscore an earlier one.                                                *)
(***************************************************************************)
RankKs == {-1, 0, 1, 2, DefaultTopK}

RankQueries == {<<"a">>, <<"b", "b", SP, "b">>}

NextRank ==
    \/ \E mload \in BOOLEAN, fail \in Fails : Startup(mload, TRUE, TRUE, fail)
    \/ \E c \in AddCategories, r \in {RecA, RecBB}, fail \in Fails : Add(c, r, TRUE, fail)
    \/ \E fail \in Fails : UpdateEmbeddings(fail)
    \/ \E c \in Categories, q \in RankQueries, k \in RankKs, qfail \in BOOLEAN :
          Search(c, q, k, qfail)
    \/ Return

SpecRank == Init /\ [][NextRank]_vars

(***************************************************************************)
(* C24.  For top_k >= 1 the result of the basic search is the first top_k  *)
(* of the records with a score above 0, by descending score, records of    *)
(* equal score in the order of the list; no record with score 0 is in it.  *)
(***************************************************************************)
C24_BasicResultIsRankedPrefix ==
    (ret.op = "search" /\ ret.path \in {"basic", "fallback"} /\ ret.k >= 1) =>
        LET c == ret.cat
            recs == data[c]
            score(i) == BasicScore(c, recs[i], ret.q)
            hits == {i \in 1..Len(recs) : score(i) > 0}
            n == Min(ret.k, Cardinality(hits))
            Before(i, j) == score(i) > score(j) \/ (score(i) = score(j) /\ i < j)
        IN /\ Len(ret.out) = n
           /\ \E f \in [1..n -> hits] :
                 /\ \A j \in 1..n :
                       /\ Stored(ret.out[j]) = recs[f[j]]
                       /\ ScoreOf(c, ret.out[j]) = score(f[j])
                       /\ ScoreOf(c, ret.out[j]) > 0
                 /\ \A j, m \in 1..n : j < m => Before(f[j], f[m])
                 /\ \A i \in hits :
                       (\A j \in 1..n : f[j] # i) => \A j \in 1..n : Before(f[j], i)

\* A basic search that returns the record added last before the one that
\* was there first, its score being higher.
C24_Witness ==
    /\ ret.op = "search"
    /\ ret.path = "basic"
    /\ ret.k >= 2
    /\ Len(ret.out) = 2
    /\ Stored(ret.out[1]) = data[ret.cat][2]
    /\ Stored(ret.out[2]) = data[ret.cat][1]
    /\ ScoreOf(ret.cat, ret.out[1]) > ScoreOf(ret.cat, ret.out[2])

(***************************************************************************)
(* C25.  A search on the vector path with top_k >= 1 returns at most top_k *)
(* results in non-increasing score order, and every record of the category *)
(* exactly once when top_k is at least the number of records.              *)
(***************************************************************************)
C25_VectorReturnsRankedCorpus ==
    (ret.op = "search" /\ ret.path = "vector" /\ ret.k >= 1) =>
        LET c == ret.cat
            recs == data[c]
            n == Len(ret.out)
        IN /\ n <= ret.k
           /\ \A j \in 1..(n - 1) :
                 ScoreOf(c, ret.out[j]) >= ScoreOf(c, ret.out[j + 1])
           /\ ret.k >= Len(recs) =>
                 /\ n = Len(recs)
                 /\ \E f \in [1..n -> 1..n] :
                       /\ \A j, m \in 1..n : f[j] = f[m] => j = m
                       /\ \A j \in 1..n : Stored(ret.out[j]) = recs[f[j]]

\* The part of C25 the code serves: the same, for an index that holds the
\* vectors of the current records.
C25_VectorReturnsRankedCorpusWhenCurrent ==
    (ret.op = "search" /\ ret.path = "vector" /\ ret.k >= 1 /\ IndexCurrent(ret.cat)) =>
        LET c == ret.cat
            recs == data[c]
            n == Len(ret.out)
        IN /\ n <= ret.k
           /\ \A j \in 1..(n - 1) :
                 ScoreOf(c, ret.out[j]) >= ScoreOf(c, ret.out[j + 1])
           /\ ret.k >= Len(recs) =>
                 /\ n = Len(recs)
                 /\ \E f \in [1..n -> 1..n] :
                       /\ \A j, m \in 1..n : f[j] = f[m] => j = m
                       /\ \A j \in 1..n : Stored(ret.out[j]) = recs[f[j]]

(***************************************************************************)
(* C30.  A search never returns more than max(top_k, 0) results: for       *)
(* top_k <= 0 the list is empty on every path.                             *)
(***************************************************************************)
C30_NoResultForNonPositiveK ==
    ret.op = "search" => Len(ret.out) <= Max(ret.k, 0)

(***************************************************************************)
(* SpecConfidence: the two confidence mappings applied to every score of   *)
(* a range that holds the cosine range [-1, 1], scores outside it, the     *)
(* clamp boundaries and basic scores above them.  Scores are thousandths.  *)
(***************************************************************************)
MaxScore == 2000

Scores == (-MaxScore)..MaxScore

Confidence(score) ==
    /\ ret.op = "none"
    /\ ret' = [op |-> "confidence", score |-> score,
               vector |-> VectorConfidence(score),
               basic |-> BasicConfidence(score)]
    /\ UNCHANGED <<kbvars, thrvars>>

NextConfidence ==
    \/ \E score \in Scores : Confidence(score)
    \/ Return

SpecConfidence == Init /\ [][NextConfidence]_vars

(***************************************************************************)
(* C15.  The confidence of a vector result is within 60..95 and that of a  *)
(* basic result within 50..90, for every score: below -1, above 1, at the  *)
(* clamp boundaries, and for large basic scores.                           *)
(***************************************************************************)
C15_ConfidenceWithinBand ==
    ret.op = "confidence" =>
        /\ ret.vector \in 60..95
        /\ ret.basic \in 50..90

\* A score below -1 is mapped to the lower ends of both bands.
C15_Witness ==
    /\ ret.op = "confidence"
    /\ ret.score < -1000
    /\ ret.vector = 60
    /\ ret.basic = 50

(***************************************************************************)
(* C27.  The confidence is the score times 100 (vector) or times 80        *)
(* (basic), rounded to the nearest integer and then clamped to 60..95 or   *)
(* to 50..90, for every score.  Nearest(a, b) is the integer nearest to    *)
(* a / b, the even one of the two when a / b lies halfway.                 *)
(***************************************************************************)
C27_ConfidenceIsRounded ==
    LET Floor(a, b) == IF a >= 0 THEN a \div b ELSE -((-a + b - 1) \div b)
        Nearest(a, b) ==
            LET f == Floor(a, b)
                twice == 2 * (a - f * b)
            IN IF twice < b THEN f
               ELSE IF twice > b THEN f + 1
               ELSE IF f % 2 = 0 THEN f ELSE f + 1
    IN ret.op = "confidence" =>
          /\ ret.vector = Min(95, Max(60, Nearest(ret.score, 10)))
          /\ ret.basic = Min(90, Max(50, Nearest(ret.score * 80, 1000)))

====
